---- MODULE Spec2Model ----
(***************************************************************************)
(* Model of instock/core/strategy/keep_increasing.py: check(code_name,     *)
(* data, date, threshold).                                                 *)
(*                                                                         *)
(* A DataFrame is a function from column name to a sequence of values (one *)
(* per row, rows numbered from 1).  Floating point values are integers in  *)
(* units of 1/Unit, so every moving average of Unit-multiples is exact.    *)
(* NaN is a marker value; every comparison with it is false (FGt, FLt).    *)
(* Optional Python values are sequences: <<>> is None, <<v>> is the value. *)
(***************************************************************************)
EXTENDS Integers, Sequences, FiniteSets, TLC

\* ------------------------------------------------------------------ bounds
MaxLen == 36
MaxSmallThreshold == 5
MaxLater == 1
MaxTie == 60

\* --------------------------------------------------------------- constants
DefaultThreshold == 30
NaN == -1000000
None == <<>>

Ma30Period == 30
VolMa20Period == 20
Ma5Period == 5
FastPeriod == 12
SlowPeriod == 26
SignalPeriod == 9
RsiPeriod == 14
Rsi5Period == 5
FastKPeriod == 9
SlowKPeriod == 3
SlowDPeriod == 3
BBandsPeriod == 20
WillrPeriod == 14
AtrPeriod == 14
ReturnPeriods == 5

\* The unit of the fixed-point values: a multiple of every averaging period.
Unit == 2 * Ma30Period

\* ----------------------------------------------------------------- helpers
Abs(x) == IF x < 0 THEN -x ELSE x

\* Running totals of a sequence: Totals(s, Len(s))[i] = s[1] + ... + s[i].
RECURSIVE Totals(_, _)
Totals(s, n) ==
    IF n = 0 THEN <<>>
    ELSE LET t == Totals(s, n - 1)
         IN Append(t, (IF n = 1 THEN 0 ELSE t[n - 1]) + s[n])

\* IEEE comparisons: false as soon as one side is NaN.
FGt(a, b) == a # NaN /\ b # NaN /\ a > b
FLt(a, b) == a # NaN /\ b # NaN /\ a < b

NRows(frame) == Len(frame["date"])

\* data.loc[:, name] = values / data[name] = values
SetCol(frame, name, values) ==
    [c \in DOMAIN frame \cup {name} |-> IF c = name THEN values ELSE frame[c]]

\* ------------------------------------------------------------------ dates
\* A calendar day of early 2024 by its ordinal (1 = 2024-01-01).
Calendar(k) ==
    IF k <= 31 THEN [year |-> 2024, month |-> 1, day |-> k]
    ELSE IF k <= 60 THEN [year |-> 2024, month |-> 2, day |-> k - 31]
    ELSE [year |-> 2024, month |-> 3, day |-> k - 60]

\* date.strftime("%Y-%m-%d"): the fixed-width text, as the number whose order
\* is the text's lexicographic order.
Strftime(d) == d.year * 10000 + d.month * 100 + d.day

\* data['date'] <= end_date on two such texts
StrLe(a, b) == a <= b

\* --------------------------------------------------------- caller's series
\* Bar i (1-based) of a generated series.  Closes: "up" rises by 2 units a
\* day, "flat" stays put.  Volumes run a four-day sawtooth, so that a
\* three-day rise ends on the days with i % 4 = 3.
CloseAt(shape, i) == IF shape = "up" THEN Unit * (2 * i - 1) ELSE Unit * 50
VolumeAt(i) == Unit * (10 + 10 * (i % 4))

\* Dates: "asc" strictly ascending; "jump" the same except that the row
\* before the last carries a date after every other row's.
DateAt(order, n, i) ==
    IF order = "jump" /\ i = n - 1 THEN Strftime(Calendar(MaxLen + 4))
    ELSE Strftime(Calendar(i + 1))

MakeSeries(shape, order, n) ==
    [date   |-> [i \in 1..n |-> DateAt(order, n, i)],
     open   |-> [i \in 1..n |-> CloseAt(shape, i)],
     high   |-> [i \in 1..n |-> CloseAt(shape, i) + Unit],
     low    |-> [i \in 1..n |-> CloseAt(shape, i) - Unit \div 2],
     close  |-> [i \in 1..n |-> CloseAt(shape, i)],
     volume |-> [i \in 1..n |-> VolumeAt(i)]]

Thresholds == (1..MaxSmallThreshold) \cup {DefaultThreshold}

VARIABLES
    code_name,   \* code_name[0]: None or a date text
    date,        \* the date argument: None or a date object
    threshold,
    given,       \* the caller's DataFrame as it was when check was called
    series,      \* the caller's DataFrame object, as it is now
    data,        \* the frame the local name data refers to
    aliased,     \* whether data is the caller's object itself
    end_date,
    step1, step2,
    cond,        \* the nine sub-conditions, once computed
    reads,       \* window indices handed to data.iloc[...] so far
    result,      \* "pending", "True", "False" or "raised"
    fault,
    pc

vars == <<code_name, date, threshold, given, series, data, aliased, end_date,
          step1, step2, cond, reads, result, fault, pc>>

NoCond == [ma |-> FALSE, volume |-> FALSE, macd |-> FALSE, rsi |-> FALSE,
           kdj |-> FALSE, bb |-> FALSE, willr |-> FALSE, ret |-> FALSE,
           atr |-> FALSE]

\* The series callers pass (shape of the closes, order of the dates) and the
\* ways they name the cutoff: not at all, by code_name[0], or by date (which
\* then outranks code_name[0]), with `later` bars dated after the cutoff.
Inputs == {<<"up", "asc">>, <<"flat", "asc">>, <<"up", "jump">>}
Cutoffs == {<<"none", 0>>, <<"identity", MaxLater>>, <<"date", MaxLater>>,
            <<"date", 0>>}

\* The call: the arguments are bound, nothing has run.
Init ==
    /\ \E in \in Inputs, n \in 0..MaxLen : given = MakeSeries(in[1], in[2], n)
    /\ series = given
    /\ threshold \in Thresholds
    /\ \E c \in Cutoffs :
          LET later == c[2]
              cut == IF NRows(given) > later THEN NRows(given) - later + 1 ELSE 1
          IN CASE c[1] = "none"     -> code_name = None /\ date = None
               [] c[1] = "identity" -> code_name = <<Strftime(Calendar(cut))>>
                                       /\ date = None
               [] c[1] = "date"     -> code_name = <<Strftime(Calendar(1))>>
                                       /\ date = <<Calendar(cut)>>
    /\ data = given
    /\ aliased = TRUE
    /\ end_date = None
    /\ step1 = 0
    /\ step2 = 0
    /\ cond = NoCond
    /\ reads = {}
    /\ result = "pending"
    /\ fault = "none"
    /\ pc = "cutoff"

\* lines 27-30
EndDate(cn, dt) == IF dt = None THEN cn ELSE <<Strftime(dt[1])>>

ResolveCutoff ==
    /\ pc = "cutoff"
    /\ end_date' = EndDate(code_name, date)
    /\ pc' = "filter"
    /\ UNCHANGED <<code_name, date, threshold, given, series, data, aliased,
                   step1, step2, cond, reads, result, fault>>

\* The mask with < in place of <=.
Mask_Strict(frame, e) ==
    [i \in 1..NRows(frame) |-> frame["date"][i] < e]

\* line 34: mask = (data['date'] <= end_date)
Mask(frame, e) == [i \in 1..NRows(frame) |-> StrLe(frame["date"][i], e)]

\* The rows up to the first one the mask drops, as if the dates ascended.
LocMask_Prefix(frame, mask) ==
    LET n == NRows(frame)
        m == Cardinality({i \in 1..n : \A j \in 1..i : mask[j]})
    IN [c \in DOMAIN frame |-> [j \in 1..m |-> frame[c][j]]]

\* line 35: data.loc[mask].copy()
LocMask(frame, mask) ==
    LET idx == SelectSeq([i \in 1..NRows(frame) |-> i], LAMBDA i : mask[i])
    IN [c \in DOMAIN frame |-> [j \in 1..Len(idx) |-> frame[c][idx[j]]]]

\* lines 33-35
FilterByCutoff ==
    /\ pc = "filter"
    /\ IF end_date # None
       THEN /\ data' = LocMask(data, Mask(data, end_date[1]))
            /\ aliased' = FALSE
       ELSE UNCHANGED <<data, aliased>>
    /\ pc' = "length"
    /\ UNCHANGED <<code_name, date, threshold, given, series, end_date,
                   step1, step2, cond, reads, result, fault>>

\* The length test one row too lenient.
TooShort_OffByOne(frame, t) == NRows(frame) < t - 1

\* lines 38-39
TooShort(frame, t) == NRows(frame) < t

CheckLength ==
    /\ pc = "length"
    /\ IF TooShort(data, threshold)
       THEN result' = "False" /\ pc' = "done"
       ELSE result' = result /\ pc' = "indicators"
    /\ UNCHANGED <<code_name, date, threshold, given, series, data, aliased,
                   end_date, step1, step2, cond, reads, fault>>

\* ------------------------------------------------------ indicator library
\* tl.MA: simple moving average, NaN on the first period-1 rows.
MA(values, period) ==
    LET tot == Totals(values, Len(values))
    IN [i \in 1..Len(values) |->
          IF i < period THEN NaN
          ELSE (tot[i] - (IF i = period THEN 0 ELSE tot[i - period])) \div period]

\* The column left as the library returned it.
FillNan_Skip(values) == values

\* col.values[np.isnan(col.values)] = 0.0
FillNan(values) ==
    [i \in 1..Len(values) |-> IF values[i] = NaN THEN 0 ELSE values[i]]

\* data['close'].pct_change(periods=5), rounded to units of 1/Unit but never
\* from a rise to zero: the sign is the quotient's.
PctChange(values, periods) ==
    [i \in 1..Len(values) |->
        IF i <= periods THEN NaN
        ELSE LET diff == values[i] - values[i - periods]
                 q == (Unit * diff) \div values[i - periods]
             IN IF diff > 0 /\ q = 0 THEN 1 ELSE q]

\* The lookback of the slow average alone, the signal smoothing forgotten.
MacdLookback_SlowOnly == SlowPeriod - 1

\* Rows on which each TA-Lib function has no output yet.
MacdLookback == (SlowPeriod - 1) + (SignalPeriod - 1)
RsiLookback(period) == period
StochLookback == (FastKPeriod - 1) + (SlowKPeriod - 1) + (SlowDPeriod - 1)
BBandsLookback == BBandsPeriod - 1
WillrLookback == WillrPeriod - 1
AtrLookback == AtrPeriod

\* A TA-Lib output column: NaN through the lookback, then the library's
\* values, of which the model keeps the newest one and the level before it.
Output(n, lookback, last, prev) ==
    [i \in 1..n |-> IF i <= lookback THEN NaN ELSE IF i = n THEN last ELSE prev]

\* What the library may answer on the newest rows.  Pass satisfies
\* conditions 3 to 7 and 9; every other answer changes it in one place.
Pass == [macd |-> 2 * Unit, macdsignal |-> Unit, histPrev |-> Unit \div 2,
         rsi |-> 60 * Unit, rsi5 |-> 65 * Unit, k |-> 80 * Unit,
         d |-> 70 * Unit, band |-> 25 * Unit, willr |-> -50 * Unit,
         atr |-> Unit]

LibOutputs ==
    {Pass,
     [Pass EXCEPT !.macd = 0 - Unit],
     [Pass EXCEPT !.macd = 0 - Unit, !.macdsignal = 0 - 2 * Unit],
     [Pass EXCEPT !.histPrev = Unit],
     [Pass EXCEPT !.rsi = 50 * Unit],
     [Pass EXCEPT !.rsi = 70 * Unit],
     [Pass EXCEPT !.rsi5 = 70 * Unit],
     [Pass EXCEPT !.k = 60 * Unit],
     [Pass EXCEPT !.d = 50 * Unit],
     [Pass EXCEPT !.band = 19 * Unit],
     [Pass EXCEPT !.willr = 0 - 80 * Unit],
     [Pass EXCEPT !.atr = 5 * Unit]}

\* lines 42-94, in the order of the code
Enrich(frame, lib) ==
    LET n  == NRows(frame)
        f1 == SetCol(frame, "ma30", FillNan(MA(frame["close"], Ma30Period)))
        f2 == SetCol(f1, "vol_ma20", FillNan(MA(frame["volume"], VolMa20Period)))
        f3 == SetCol(f2, "macd",
                     Output(n, MacdLookback, lib.macd, lib.macdsignal + lib.histPrev))
        f4 == SetCol(f3, "macdsignal",
                     Output(n, MacdLookback, lib.macdsignal, lib.macdsignal))
        f5 == SetCol(f4, "macdhist",
                     Output(n, MacdLookback, lib.macd - lib.macdsignal, lib.histPrev))
        f6 == SetCol(f5, "rsi", Output(n, RsiLookback(RsiPeriod), lib.rsi, lib.rsi))
        f7 == SetCol(f6, "k", Output(n, StochLookback, lib.k, lib.k))
        f8 == SetCol(f7, "d", Output(n, StochLookback, lib.d, lib.d))
        mid == MA(frame["close"], BBandsPeriod)
        f9 == SetCol(f8, "upper",
                     [i \in 1..n |-> IF mid[i] = NaN THEN NaN ELSE mid[i] + lib.band])
        f10 == SetCol(f9, "middle", mid)
        f11 == SetCol(f10, "lower",
                     [i \in 1..n |-> IF mid[i] = NaN THEN NaN ELSE mid[i] - lib.band])
        f12 == SetCol(f11, "ma5", FillNan(MA(frame["close"], Ma5Period)))
        f13 == SetCol(f12, "rsi5", Output(n, RsiLookback(Rsi5Period), lib.rsi5, lib.rsi5))
        f14 == SetCol(f13, "willr", Output(n, WillrLookback, lib.willr, lib.willr))
        f15 == SetCol(f14, "atr", Output(n, AtrLookback, lib.atr, lib.atr))
    IN SetCol(f15, "return", PctChange(frame["close"], ReturnPeriods))

ComputeIndicators ==
    /\ pc = "indicators"
    /\ \E lib \in LibOutputs : data' = Enrich(data, lib)
    /\ series' = IF aliased THEN data' ELSE series
    /\ pc' = "window"
    /\ UNCHANGED <<code_name, date, threshold, given, aliased, end_date,
                   step1, step2, cond, reads, result, fault>>

\* ------------------------------------------------------------------ window
\* data.tail(n=t)
DataTail(frame, t) ==
    LET n == NRows(frame)
        m == IF t < n THEN t ELSE n
    IN [c \in DOMAIN frame |-> [j \in 1..m |-> frame[c][n - m + j]]]

\* Integer division in place of rounding.
Round_Floor(num, den) == num \div den

\* Python round(num / den): to the nearest integer, a tie to the even one.
Round(num, den) ==
    LET q == num \div den
        r == num % den
    IN IF 2 * r < den THEN q
       ELSE IF 2 * r > den THEN q + 1
       ELSE IF q % 2 = 0 THEN q ELSE q + 1

Step1(t) == Round(t, 3)
Step2(t) == Round(t * 2, 3)

\* lines 98-102
TakeWindow ==
    /\ pc = "window"
    /\ data' = DataTail(data, threshold)
    /\ aliased' = FALSE
    /\ step1' = Step1(threshold)
    /\ step2' = Step2(threshold)
    /\ pc' = "conditions"
    /\ UNCHANGED <<code_name, date, threshold, given, series, end_date,
                   cond, reads, result, fault>>

\* ------------------------------------------------------------- conditions
\* data.iloc[i]: i >= 0 counts from the oldest row, i < 0 from the newest.
InRange(rows, i) == IF i >= 0 THEN i < rows ELSE 0 - i <= rows
Pos(rows, i) == IF i >= 0 THEN i + 1 ELSE rows + i + 1

\* data.iloc[i][col] where the row exists; the marker where iloc raises, so
\* that nothing after the raise counts as true.
At(w, col, i) ==
    IF InRange(NRows(w), i) THEN w[col][Pos(NRows(w), i)] ELSE NaN

\* a < b < c < d as Python evaluates it, left to right, stopping at the
\* first false link.
TrendUp(w, col, s1, s2) ==
    /\ FLt(At(w, col, 0), At(w, col, s1))
    /\ FLt(At(w, col, s1), At(w, col, s2))
    /\ FLt(At(w, col, s2), At(w, col, -1))

\* lines 106-108
MaCondition(w, s1, s2) ==
    /\ FGt(At(w, "ma5", -1), At(w, "ma30", -1))
    /\ TrendUp(w, "ma5", s1, s2)

\* line 112
VolumeTrend(w) ==
    /\ FGt(At(w, "volume", -1), At(w, "volume", -2))
    /\ FGt(At(w, "volume", -2), At(w, "volume", -3))

\* line 113: volume[-1] > 1.5 * vol_ma20[-1]
VolumeCondition(w) ==
    /\ VolumeTrend(w)
    /\ At(w, "vol_ma20", -1) # NaN
    /\ FGt(2 * At(w, "volume", -1), 3 * At(w, "vol_ma20", -1))

\* lines 116-118
MacdStrength(w) ==
    /\ FGt(At(w, "macdhist", -1), At(w, "macdhist", -2))
    /\ FGt(At(w, "macdhist", -2), 0)

MacdCondition(w) ==
    /\ FGt(At(w, "macd", -1), At(w, "macdsignal", -1))
    /\ FGt(At(w, "macd", -1), 0)
    /\ MacdStrength(w)

\* lines 121-122
InBand(x, lo, hi) == FLt(lo, x) /\ FLt(x, hi)

RsiCondition(w) ==
    /\ InBand(At(w, "rsi", -1), 50 * Unit, 70 * Unit)
    /\ InBand(At(w, "rsi5", -1), 50 * Unit, 70 * Unit)

\* lines 126-127
KdjCondition(w) ==
    /\ FGt(At(w, "k", -1), At(w, "d", -1))
    /\ FGt(At(w, "k", -1), 50 * Unit)
    /\ FGt(At(w, "d", -1), 50 * Unit)

\* lines 130-131
BbCondition(w) ==
    /\ FGt(At(w, "close", -1), At(w, "middle", -1))
    /\ FLt(At(w, "close", -1), At(w, "upper", -1))

\* line 134
WillrCondition(w) == InBand(At(w, "willr", -1), 0 - 80 * Unit, 0 - 20 * Unit)

\* line 137
ReturnCondition(w) == FGt(At(w, "return", -1), 0)

\* line 140: atr[-1] < 0.05 * close[-1]
AtrCondition(w) ==
    /\ At(w, "atr", -1) # NaN
    /\ FLt(20 * At(w, "atr", -1), At(w, "close", -1))

Conditions(w, s1, s2) ==
    [ma |-> MaCondition(w, s1, s2), volume |-> VolumeCondition(w),
     macd |-> MacdCondition(w), rsi |-> RsiCondition(w),
     kdj |-> KdjCondition(w), bb |-> BbCondition(w),
     willr |-> WillrCondition(w), ret |-> ReturnCondition(w),
     atr |-> AtrCondition(w)]

\* The window indices lines 106-140 hand to data.iloc, in order, when no
\* access raises: `and` and chained comparisons stop at the first false.
Accesses(w, s1, s2) ==
    LET ma5(i) == At(w, "ma5", i)
        chain == IF ~FGt(ma5(-1), At(w, "ma30", -1)) THEN <<>>
                 ELSE <<0, s1>> \o
                      (IF ~FLt(ma5(0), ma5(s1)) THEN <<>>
                       ELSE <<s2>> \o
                            (IF ~FLt(ma5(s1), ma5(s2)) THEN <<>> ELSE <<-1>>))
        vol == <<-1, -2>> \o
               (IF ~FGt(At(w, "volume", -1), At(w, "volume", -2)) THEN <<>>
                ELSE <<-3>>)
    IN <<-1, -1>> \o chain \o vol \o <<-1, -2, -1>>

\* The first access that iloc refuses, 0 if none does.
FirstRefused(w, acc) ==
    LET bad == {j \in 1..Len(acc) : ~InRange(NRows(w), acc[j])}
    IN IF bad = {} THEN 0 ELSE CHOOSE j \in bad : \A k \in bad : j <= k

\* lines 106-140
EvaluateConditions ==
    /\ pc = "conditions"
    /\ LET acc == Accesses(data, step1, step2)
           bad == FirstRefused(data, acc)
       IN IF bad = 0
          THEN /\ reads' = {acc[j] : j \in 1..Len(acc)}
               /\ cond' = Conditions(data, step1, step2)
               /\ pc' = "verdict"
               /\ UNCHANGED <<result, fault>>
          ELSE /\ reads' = {acc[j] : j \in 1..bad}
               /\ fault' = "IndexError"
               /\ result' = "raised"
               /\ pc' = "done"
               /\ UNCHANGED cond
    /\ UNCHANGED <<code_name, date, threshold, given, series, data, aliased,
                   end_date, step1, step2>>

\* The conjunction without the volatility cap.
Verdict_NoAtr(c) ==
    /\ c.ma /\ c.volume /\ c.macd /\ c.rsi /\ c.kdj
    /\ c.bb /\ c.willr /\ c.ret

\* lines 143-148
Verdict(c) ==
    /\ c.ma /\ c.volume /\ c.macd /\ c.rsi /\ c.kdj
    /\ c.bb /\ c.willr /\ c.ret /\ c.atr

ReturnVerdict ==
    /\ pc = "verdict"
    /\ result' = IF Verdict(cond) THEN "True" ELSE "False"
    /\ pc' = "done"
    /\ UNCHANGED <<code_name, date, threshold, given, series, data, aliased,
                   end_date, step1, step2, cond, reads, fault>>

\* lines 32-148 as one function of the frame the caller passed, the cutoff,
\* the threshold and the library's answers: what check returns or raises.
Outcome(frame, e, t, lib) ==
    LET d == IF e # None THEN LocMask(frame, Mask(frame, e[1])) ELSE frame
    IN IF TooShort(d, t) THEN "False"
       ELSE LET w == DataTail(Enrich(d, lib), t)
                s1 == Step1(t)
                s2 == Step2(t)
            IN IF FirstRefused(w, Accesses(w, s1, s2)) # 0 THEN "raised"
               ELSE IF Verdict(Conditions(w, s1, s2)) THEN "True"
               ELSE "False"

Next ==
    \/ ResolveCutoff
    \/ FilterByCutoff
    \/ CheckLength
    \/ ComputeIndicators
    \/ TakeWindow
    \/ EvaluateConditions
    \/ ReturnVerdict

Spec == Init /\ [][Next]_vars

\* ---------------------------------------------------------------- claims
Ascending(dates) == \A i \in 1..(Len(dates) - 1) : dates[i] < dates[i + 1]

\* Rows of the caller's series dated at or before the cutoff; all of them
\* when there is no cutoff.
KeptRows == IF end_date = None THEN 1..NRows(given)
            ELSE {i \in 1..NRows(given) : given["date"][i] <= end_date[1]}
Kept == Cardinality(KeptRows)

Started == pc \notin {"cutoff", "filter"}
WindowTaken == pc \in {"conditions", "verdict"} \/ reads # {}
Returned == pc = "done" /\ result \in {"True", "False"}

\* C1: with fewer than threshold bars at or before the cutoff, check returns
\* False, raises nothing, and has computed no indicator and read no row,
\* whatever the bars are (the empty series included).
ShortSeriesReturnsFalse ==
    (Started /\ pc # "length" /\ Kept < threshold) =>
        /\ pc = "done"
        /\ result = "False"
        /\ fault = "none"
        /\ reads = {}
        /\ DOMAIN data = DOMAIN given
        /\ series = given

ShortSeriesWitness ==
    /\ pc = "done"
    /\ result = "False"
    /\ Kept = threshold - 1
    /\ NRows(given) >= threshold

\* The nine sub-conditions of lines 106-140, each taken from the window.
AllNine(w, s1, s2) ==
    /\ MaCondition(w, s1, s2)
    /\ VolumeCondition(w)
    /\ MacdCondition(w)
    /\ RsiCondition(w)
    /\ KdjCondition(w)
    /\ BbCondition(w)
    /\ WillrCondition(w)
    /\ ReturnCondition(w)
    /\ AtrCondition(w)

FailedConditions ==
    {c \in DOMAIN cond : ~cond[c]}

Twin(frame, e) ==
    IF e = None THEN frame
    ELSE LET n == NRows(frame)
             late(i) == frame["date"][i] > e[1]
             bump(col, by) ==
                 [i \in 1..n |-> IF late(i) THEN frame[col][i] + by
                                 ELSE frame[col][i]]
         IN [date   |-> Append(frame["date"], Strftime(Calendar(MaxLen + 6))),
             open   |-> Append(bump("open", 7 * Unit), 90 * Unit),
             high   |-> Append(bump("high", 9 * Unit), 95 * Unit),
             low    |-> Append(bump("low", 5 * Unit), 85 * Unit),
             close  |-> Append(bump("close", 7 * Unit), 90 * Unit),
             volume |-> Append(bump("volume", 50 * Unit), 99 * Unit)]

NewestKept == CHOOSE i \in KeptRows : \A j \in KeptRows :
                  given["date"][j] <= given["date"][i]

\* C3: the verdict is computed from the bars dated at or before the cutoff
\* alone.  The cutoff is the date argument when given, else code_name[0];
\* a series that differs only in bars after the cutoff (Twin: those bars
\* changed and one more appended) leaves the same frame to every later step
\* and gets the same outcome; and on a well-formed (ascending) series the
\* newest row of the window is the newest bar at or before the cutoff.
VerdictReadsOnlyUpToCutoff ==
    /\ pc # "cutoff" =>
          end_date = IF date # None
                     THEN <<date[1].year * 10000 + date[1].month * 100 + date[1].day>>
                     ELSE code_name
    /\ (pc = "length" /\ end_date # None) =>
          LET twin == Twin(given, end_date)
          IN /\ twin # given
             /\ data = LocMask(twin, Mask(twin, end_date[1]))
             /\ \A i \in 1..NRows(data) : data["date"][i] <= end_date[1]
             /\ \A lib \in {Pass, [Pass EXCEPT !.atr = 5 * Unit]} :
                   Outcome(given, end_date, threshold, lib)
                       = Outcome(twin, end_date, threshold, lib)
    /\ (pc \in {"conditions", "verdict"} /\ Ascending(given["date"])) =>
          /\ At(data, "date", -1) = given["date"][NewestKept]
          /\ At(data, "close", -1) = given["close"][NewestKept]
          /\ At(data, "volume", -1) = given["volume"][NewestKept]

CutoffWitness ==
    /\ pc = "verdict"
    /\ date # None
    /\ Kept < NRows(given)
    /\ Ascending(given["date"])
    /\ Verdict(cond)

\* C4: check never modifies the caller's series: it has the same rows and
\* the same columns after the call as before, whatever date and identity are.
CallerSeriesUntouched == series = given

\* The four baseline conditions.
BaselineTrend(w, s1, s2) ==
    /\ TrendUp(w, "ma30", s1, s2)
    /\ FGt(5 * At(w, "ma30", -1), 6 * At(w, "ma30", 0))

Baseline(w, s1, s2) ==
    /\ BaselineTrend(w, s1, s2)
    /\ FGt(At(w, "volume", -1), At(w, "vol_ma20", -1))
    /\ FGt(At(w, "macd", -1), At(w, "macdsignal", -1))
    /\ FGt(At(w, "macd", -1), 0)
    /\ InBand(At(w, "rsi", -1), 50 * Unit, 70 * Unit)

\* C5: every series the nine-condition verdict accepts satisfies the four
\* baseline conditions (ma30 rising over the checkpoints and by more than 20%,
\* volume above its 20-day mean, MACD above signal and zero, RSI in (50,70)),
\* and a baseline series with atr >= 0.05 * close is rejected.
ExtendedImpliesBaseline ==
    (Returned /\ Kept >= threshold) =>
        /\ result = "True" => Baseline(data, step1, step2)
        /\ (Baseline(data, step1, step2) /\ ~AtrCondition(data)) => result = "False"

\* k is the one integer nearest to num/den (num/den is no half-integer).
Nearest(k, num, den) == 2 * Abs(den * k - num) < den

\* C6: the trend check samples window indices 0, step1, step2 and -1, where
\* step1 and step2 are threshold/3 and 2*threshold/3 rounded to the nearest
\* integer (10 and 20 for threshold 30), and no threshold lies half-way
\* between two integers.
CheckpointRounding ==
    /\ WindowTaken =>
          /\ Nearest(step1, threshold, 3)
          /\ Nearest(step2, 2 * threshold, 3)
          /\ threshold = 30 => (step1 = 10 /\ step2 = 20)
          /\ reads \subseteq {0, step1, step2, -1, -2, -3}
    /\ (pc = "verdict" /\ cond.ma) => {0, step1, step2, -1} \subseteq reads
    /\ \A t \in 1..MaxTie :
          /\ Nearest(Step1(t), t, 3)
          /\ Nearest(Step2(t), 2 * t, 3)

CheckpointWitness ==
    /\ pc = "verdict"
    /\ threshold = 30
    /\ cond.ma
    /\ reads = {0, 10, 20, -1, -2, -3}

\* C7 as stated: a series whose dates are not strictly ascending never
\* yields a boolean, check raises instead.
NonMonotonicDatesRaise ==
    (pc = "done" /\ ~Ascending(given["date"])) => result = "raised"

\* The kept rows in the order the caller gave them.
KeptInOrder ==
    SelectSeq([i \in 1..NRows(given) |-> i], LAMBDA i : i \in KeptRows)

\* C7 amended: the order of the dates is not checked.  Every row dated at or
\* before the cutoff is kept, in input order; fewer than threshold kept rows
\* give False, otherwise the last threshold kept rows are judged as always;
\* the one fault is the IndexError of thresholds 1 and 2.
NonMonotonicDatesIgnored ==
    (Started /\ ~Ascending(given["date"])) =>
        /\ pc = "length" =>
              /\ data["date"] = [j \in 1..Kept |-> given["date"][KeptInOrder[j]]]
              /\ data["close"] = [j \in 1..Kept |-> given["close"][KeptInOrder[j]]]
        /\ (pc = "done" /\ Kept < threshold) => result = "False"
        /\ (pc = "done" /\ Kept >= threshold /\ threshold >= 3) => Returned
        /\ result = "raised" => (fault = "IndexError" /\ threshold < 3)

NonMonotonicWitness ==
    /\ Returned
    /\ ~Ascending(given["date"])
    /\ Kept >= threshold
    /\ \E i \in 1..NRows(given) : i \notin KeptRows /\ i + 1 \in KeptRows

\* C8: on exactly 30 bars with threshold 30, the first 29 ma30 values, the
\* first 4 ma5 values and the first 19 vol_ma20 values are 0.0, the later
\* ones are the averages, nothing is raised, and the trend comparison at
\* window index 0 is made with 0.0.
WarmupIsZero ==
    (threshold = 30 /\ Kept = 30) =>
        /\ pc \in {"window", "conditions", "verdict"} =>
              /\ NRows(data) = 30
              /\ \A i \in 1..29 : data["ma30"][i] = 0
              /\ \A i \in 1..4 : data["ma5"][i] = 0
              /\ \A i \in 1..19 : data["vol_ma20"][i] = 0
              /\ data["ma30"][30] > 0
              /\ \A i \in 5..30 : data["ma5"][i] > 0
              /\ \A i \in 20..30 : data["vol_ma20"][i] > 0
        /\ pc = "verdict" =>
              /\ At(data, "ma5", 0) = 0
              /\ At(data, "ma30", 0) = 0
              /\ cond.ma = (/\ At(data, "ma5", -1) > At(data, "ma30", -1)
                            /\ 0 < At(data, "ma5", step1)
                            /\ At(data, "ma5", step1) < At(data, "ma5", step2)
                            /\ At(data, "ma5", step2) < At(data, "ma5", -1))
        /\ pc = "done" => Returned

WarmupWitness ==
    /\ pc = "verdict"
    /\ threshold = 30
    /\ Kept = 30
    /\ 0 \in reads
    /\ cond.ma

\* The MACD values lines 116-118 read.
MacdReads(w) == {At(w, "macd", -1), At(w, "macdsignal", -1),
                 At(w, "macdhist", -1), At(w, "macdhist", -2)}

EveryThresholdCompletes ==
    (pc = "done" /\ Kept >= threshold) =>
        /\ Returned
        /\ \A i \in reads : InRange(threshold, i)
        /\ 0 < step1 /\ step1 < step2 /\ step2 < threshold - 1
====
